---------------------------- MODULE Spec2Model ----------------------------
(***************************************************************************)
(* A model of util/types/mytime.go: the MySQL-compatible date-time value   *)
(* (mysqlTime), day numbers, week numbering, time differences and the      *)
(* round trip through the standard calendar that validates a value.        *)
(*                                                                         *)
(* The state is what a caller of the package holds: two time values, the   *)
(* operation it called last, that call's scalar argument and its result.   *)
(* Every function of the file is an operator computed as the Go code       *)
(* computes it (truncating division, fixed-width fields, 64-bit unsigned   *)
(* arithmetic), and every function has one action that calls it.           *)
(***************************************************************************)
EXTENDS Integers, Sequences, FiniteSets

VARIABLES t1, t2, op, arg, ret

vars == <<t1, t2, op, arg, ret>>

----------------------------------------------------------------------------
(* Go integer arithmetic.                                                  *)

Abs(a) == IF a < 0 THEN -a ELSE a

\* Go's / on signed integers truncates toward zero.
GoDiv(a, b) ==
    LET q == Abs(a) \div Abs(b)
    IN  IF (a < 0) # (b < 0) THEN -q ELSE q

\* Go's % takes the sign of the dividend.
GoMod(a, b) == a - b * GoDiv(a, b)

\* Conversions to the unsigned field types keep the low bits.
Uint8(x) == x % 256

Uint16(x) == x % 65536

\* x mod 2^32, written on 16-bit halves.
Uint32(x) == ((x \div 65536) % 65536) * 65536 + (x % 65536)

----------------------------------------------------------------------------
(* mysqlTime and its accessors.                                            *)

MaxYear == 9999

newMysqlTime(year, month, day, hour, minute, second, microsecond) ==
    [year |-> Uint16(year), month |-> Uint8(month), day |-> Uint8(day),
     hour |-> Uint8(hour), minute |-> Uint8(minute), second |-> Uint8(second),
     microsecond |-> Uint32(microsecond)]

\* The zero value of the struct.
ZeroTime == newMysqlTime(0, 0, 0, 0, 0, 0, 0)

----------------------------------------------------------------------------
(* Day numbers.                                                            *)

calcDaynrOffByLeap(year, month, day) ==
    IF year = 0 /\ month = 0 THEN 0
    ELSE LET delsum == 365 * year + 31 * (month - 1) + day
             y      == year - 1
             d      == IF month <= 2 THEN delsum
                       ELSE delsum - GoDiv(month * 4 + 23, 10)
             temp   == GoDiv((GoDiv(y, 100) + 1) * 3, 4)
         IN  d + GoDiv(y, 4) - temp

\* calcDaynr calculates days since 0000-00-00.
calcDaynr(year, month, day) ==
    IF year = 0 /\ month = 0 THEN 0
    ELSE LET delsum == 365 * year + 31 * (month - 1) + day
             y      == IF month <= 2 THEN year - 1 ELSE year
             d      == IF month <= 2 THEN delsum
                       ELSE delsum - GoDiv(month * 4 + 23, 10)
             temp   == GoDiv((GoDiv(y, 100) + 1) * 3, 4)
         IN  d + GoDiv(y, 4) - temp

calcDaysInYearNoCentury(year) ==
    IF year % 4 = 0 THEN 366 ELSE 365

calcDaysInYearZeroLeap(year) ==
    IF year % 4 = 0 /\ (GoMod(year, 100) # 0 \/ GoMod(year, 400) = 0)
    THEN 366 ELSE 365

\* calcDaysInYear: year&3 is year mod 4 in two's complement.
calcDaysInYear(year) ==
    IF year % 4 = 0
       /\ (GoMod(year, 100) # 0 \/ (GoMod(year, 400) = 0 /\ year # 0))
    THEN 366 ELSE 365

\* calcWeekday: 0 for Monday, 1 for Tuesday ... (shifted when Sunday is first).
calcWeekday(daynr, sundayFirstDayOfWeek) ==
    GoMod(daynr + 5 + (IF sundayFirstDayOfWeek THEN 1 ELSE 0), 7)

YearDay(t) ==
    IF t.month = 0 \/ t.day = 0 THEN 0
    ELSE calcDaynr(t.year, t.month, t.day) - calcDaynr(t.year, 1, 1) + 1

----------------------------------------------------------------------------
(* Week numbering.                                                         *)

weekBehaviourMondayFirst == 1

weekBehaviourYear == 2

weekBehaviourFirstWeekday == 4

\* v & flag != 0, for a single-bit flag.
test(v, flag) == (v \div flag) % 2 = 1

\* v | flag and v ^ flag, for a single-bit flag.
BitOr(v, flag) == IF test(v, flag) THEN v ELSE v + flag

BitXor(v, flag) == IF test(v, flag) THEN v - flag ELSE v + flag

weekMode(mode) ==
    LET weekFormat == mode % 8
    IN  IF ~test(weekFormat, weekBehaviourMondayFirst)
        THEN BitXor(weekFormat, weekBehaviourFirstWeekday)
        ELSE weekFormat

calcWeekZeroInYearMode(t, wb) ==
    LET daynr        == calcDaynr(t.year, t.month, t.day)
        firstDaynr0  == calcDaynr(t.year, 1, 1)
        mondayFirst  == test(wb, weekBehaviourMondayFirst)
        weekYear0    == test(wb, weekBehaviourYear)
        firstWeekday == test(wb, weekBehaviourFirstWeekday)
        weekday0     == calcWeekday(firstDaynr0, ~mondayFirst)
        partial(wd)  == (firstWeekday /\ wd # 0) \/ (~firstWeekday /\ wd >= 4)
        inFirst      == t.month = 1 /\ t.day <= 7 - weekday0
    IN  IF inFirst /\ partial(weekday0)
        THEN <<t.year, 0>>
        ELSE
          LET weekYear   == weekYear0 \/ inFirst
              year       == IF inFirst THEN t.year - 1 ELSE t.year
              prevDays   == calcDaysInYear(year)
              firstDaynr == IF inFirst THEN firstDaynr0 - prevDays ELSE firstDaynr0
              weekday    == IF inFirst THEN GoMod(weekday0 + 53 * 7 - prevDays, 7)
                            ELSE weekday0
              days       == IF partial(weekday)
                            THEN daynr - (firstDaynr + 7 - weekday)
                            ELSE daynr - (firstDaynr - weekday)
              weekday2   == GoMod(weekday + calcDaysInYear(year), 7)
          IN  IF weekYear /\ days >= 52 * 7
                 /\ ((~firstWeekday /\ weekday2 < 4) \/ (firstWeekday /\ weekday2 = 0))
              THEN <<year + 1, 1>>
              ELSE <<year, GoDiv(days, 7) + 1>>

\* calcWeek calculates week and year for the time: <<year, week>>.
calcWeek(t, wb) ==
    LET daynr        == calcDaynr(t.year, t.month, t.day)
        firstDaynr0  == calcDaynr(t.year, 1, 1)
        mondayFirst  == test(wb, weekBehaviourMondayFirst)
        weekYear0    == test(wb, weekBehaviourYear)
        firstWeekday == test(wb, weekBehaviourFirstWeekday)
        weekday0     == calcWeekday(firstDaynr0, ~mondayFirst)
        partial(wd)  == (firstWeekday /\ wd # 0) \/ (~firstWeekday /\ wd >= 4)
        inFirst      == t.month = 1 /\ t.day <= 7 - weekday0
    IN  IF inFirst /\ ~weekYear0 /\ partial(weekday0)
        THEN <<t.year, 0>>
        ELSE
          LET weekYear   == weekYear0 \/ inFirst
              year       == IF inFirst THEN t.year - 1 ELSE t.year
              prevDays   == calcDaysInYear(year)
              firstDaynr == IF inFirst THEN firstDaynr0 - prevDays ELSE firstDaynr0
              weekday    == IF inFirst THEN GoMod(weekday0 + 53 * 7 - prevDays, 7)
                            ELSE weekday0
              days       == IF partial(weekday)
                            THEN daynr - (firstDaynr + 7 - weekday)
                            ELSE daynr - (firstDaynr - weekday)
              weekday2   == GoMod(weekday + calcDaysInYear(year), 7)
          IN  IF weekYear /\ days >= 52 * 7
                 /\ ((~firstWeekday /\ weekday2 < 4) \/ (firstWeekday /\ weekday2 = 0))
              THEN <<year + 1, 1>>
              ELSE <<year, GoDiv(days, 7) + 1>>

YearWeekNoYearFlag(t, mode) == calcWeek(t, weekMode(mode))

YearWeek(t, mode) == calcWeek(t, BitOr(weekMode(mode), weekBehaviourYear))

Week(t, mode) ==
    IF t.month = 0 \/ t.day = 0 THEN 0
    ELSE calcWeek(t, weekMode(mode))[2]

----------------------------------------------------------------------------
(* The standard calendar (Go's time package) that GoTime round-trips       *)
(* through.  time.Date accepts fields outside their usual ranges and       *)
(* normalizes them: microseconds carry into seconds, seconds into minutes, *)
(* minutes into hours, hours into days, months into years, and the day of  *)
(* the month counts on from the first of the normalized month.  The zone   *)
(* is a fixed offset, so no wall-clock time is skipped or repeated.        *)

\* Days from 1970-01-01 to the proleptic Gregorian date (y, m, d), m in 1..12.
DaysFromCivil(y, m, d) ==
    LET yy  == IF m <= 2 THEN y - 1 ELSE y
        era == yy \div 400
        yoe == yy - era * 400
        mp  == IF m > 2 THEN m - 3 ELSE m + 9
        doy == (153 * mp + 2) \div 5 + d - 1
        doe == yoe * 365 + yoe \div 4 - yoe \div 100 + doy
    IN  era * 146097 + doe - 719468

\* The proleptic Gregorian date, <<y, m, d>>, of a day count from 1970-01-01.
CivilFromDays(z0) ==
    LET z   == z0 + 719468
        era == z \div 146097
        doe == z - era * 146097
        yoe == (doe - doe \div 1460 + doe \div 36524 - doe \div 146096) \div 365
        doy == doe - (365 * yoe + yoe \div 4 - yoe \div 100)
        mp  == (5 * doy + 2) \div 153
        d   == doy - (153 * mp + 2) \div 5 + 1
        m   == IF mp < 10 THEN mp + 3 ELSE mp - 9
    IN  <<yoe + era * 400 + (IF m <= 2 THEN 1 ELSE 0), m, d>>

\* gotime.Date(year, month, day, hour, min, sec, usec*1000, loc) followed by
\* tm.Date(), tm.Clock(), tm.Nanosecond()/1000 and tm.Weekday() (Sunday = 0).
GoDate(year, month, day, hour, min, sec, usec) ==
    LET s1  == sec + usec \div 1000000
        m1  == min + s1 \div 60
        h1  == hour + m1 \div 60
        d1  == day + h1 \div 24
        mo  == month - 1
        y1  == year + mo \div 12
        z   == DaysFromCivil(y1, (mo % 12) + 1, 1) + d1 - 1
        ymd == CivilFromDays(z)
    IN  [year |-> ymd[1], month |-> ymd[2], day |-> ymd[3],
         hour |-> h1 % 24, minute |-> m1 % 60, second |-> s1 % 60,
         microsecond |-> usec % 1000000, weekday |-> (z + 4) % 7]

GoTimeClockOnly(t) ==
    LET tm == GoDate(t.year, t.month, t.day, t.hour, t.minute, t.second,
                     t.microsecond)
    IN  [tm |-> tm,
         err |-> IF tm.hour # t.hour \/ tm.minute # t.minute
                    \/ tm.second # t.second \/ tm.microsecond # t.microsecond
                 THEN "ErrInvalidTimeFormat" ELSE "nil"]

\* GoTime returns the normalized time and, when a field changed, the error.
GoTime(t) ==
    LET tm == GoDate(t.year, t.month, t.day, t.hour, t.minute, t.second,
                     t.microsecond)
    IN  [tm |-> tm,
         err |-> IF tm.year # t.year \/ tm.month # t.month \/ tm.day # t.day
                    \/ tm.hour # t.hour \/ tm.minute # t.minute
                    \/ tm.second # t.second \/ tm.microsecond # t.microsecond
                 THEN "ErrInvalidTimeFormat" ELSE "nil"]

Weekday(t) ==
    LET r == GoTime(t)
    IN  IF r.err # "nil" THEN 0 ELSE r.tm.weekday

----------------------------------------------------------------------------
(* calcTimeFromSec writes through its pointer: the new value of *to.       *)

calcTimeFromSecClearsDate(to, seconds, microseconds) ==
    newMysqlTime(0, 0, 0, GoDiv(seconds, 3600), GoDiv(GoMod(seconds, 3600), 60),
                 GoMod(GoMod(seconds, 3600), 60), microseconds)

calcTimeFromSec(to, seconds, microseconds) ==
    [to EXCEPT !.hour = Uint8(GoDiv(seconds, 3600)),
               !.minute = Uint8(GoDiv(GoMod(seconds, 3600), 60)),
               !.second = Uint8(GoMod(GoMod(seconds, 3600), 60)),
               !.microsecond = Uint32(microseconds)]

----------------------------------------------------------------------------
(* 64-bit integers.  A difference in microseconds, a uint64 encoding or a  *)
(* wrapped unsigned value exceeds the model checker's integers, so such a  *)
(* value is kept as its decimal numeral: the sequence of its base-1000     *)
(* digits, least significant first, without leading zeros (zero is <<>>).  *)
(* A signed value is a record [neg, mag]; zero has neg = FALSE.            *)

RECURSIVE BigNorm(_)
BigNorm(a) ==
    IF a = <<>> THEN a
    ELSE IF a[Len(a)] = 0 THEN BigNorm(SubSeq(a, 1, Len(a) - 1)) ELSE a

RECURSIVE BigFromNat(_)
BigFromNat(n) ==
    IF n = 0 THEN <<>> ELSE <<n % 1000>> \o BigFromNat(n \div 1000)

Digit(a, i) == IF i <= Len(a) THEN a[i] ELSE 0

RECURSIVE BigAddFrom(_, _, _, _)
BigAddFrom(a, b, i, c) ==
    IF i > Len(a) /\ i > Len(b) THEN BigFromNat(c)
    ELSE LET s == Digit(a, i) + Digit(b, i) + c
         IN  <<s % 1000>> \o BigAddFrom(a, b, i + 1, s \div 1000)

BigAdd(a, b) == BigAddFrom(a, b, 1, 0)

RECURSIVE BigSubFrom(_, _, _, _)
BigSubFrom(a, b, i, borrow) ==
    IF i > Len(a) THEN <<>>
    ELSE LET s == a[i] - Digit(b, i) - borrow
         IN  <<s % 1000>> \o BigSubFrom(a, b, i + 1, IF s < 0 THEN 1 ELSE 0)

\* a - b, for a >= b.
BigSub(a, b) == BigNorm(BigSubFrom(a, b, 1, 0))

RECURSIVE BigLessAt(_, _, _)
BigLessAt(a, b, i) ==
    IF i = 0 THEN FALSE
    ELSE IF a[i] # b[i] THEN a[i] < b[i] ELSE BigLessAt(a, b, i - 1)

BigLess(a, b) ==
    IF Len(a) # Len(b) THEN Len(a) < Len(b) ELSE BigLessAt(a, b, Len(a))

RECURSIVE BigMulFrom(_, _, _, _)
BigMulFrom(a, k, i, c) ==
    IF i > Len(a) THEN BigFromNat(c)
    ELSE LET p == a[i] * k + c
         IN  <<p % 1000>> \o BigMulFrom(a, k, i + 1, p \div 1000)

\* a * k, for 0 <= k <= 2000000.
BigMulSmall(a, k) == BigNorm(BigMulFrom(a, k, 1, 0))

RECURSIVE BigDivFrom(_, _, _, _)
BigDivFrom(a, k, i, r) ==
    IF i = 0 THEN [q |-> <<>>, r |-> r]
    ELSE LET cur  == r * 1000 + a[i]
             rest == BigDivFrom(a, k, i - 1, cur % k)
         IN  [q |-> rest.q \o <<cur \div k>>, r |-> rest.r]

\* Quotient and remainder of a by k, for 0 < k <= 2000000.
BigDivSmall(a, k) == BigNorm(BigDivFrom(a, k, Len(a), 0).q)

BigModSmall(a, k) == BigDivFrom(a, k, Len(a), 0).r

\* 2^64 and 2^63.
Two64 == <<616, 551, 709, 73, 744, 446, 18>>

Two63 == <<808, 775, 854, 36, 372, 223, 9>>

RECURSIVE Mod64(_)
Mod64(a) == IF BigLess(a, Two64) THEN a ELSE Mod64(BigSub(a, Two64))

\* uint arithmetic (64-bit build): results wrap modulo 2^64.
UintSub(a, b) == IF BigLess(a, b) THEN BigSub(BigAdd(a, Two64), b) ELSE BigSub(a, b)

UintAdd(a, b) == Mod64(BigAdd(a, b))

UintMulSmall(a, k) == Mod64(BigMulSmall(a, k))

Signed(neg, mag) == [neg |-> neg /\ mag # <<>>, mag |-> mag]

SFromInt(n) == Signed(n < 0, BigFromNat(Abs(n)))

SNeg(x) == Signed(~x.neg, x.mag)

SAdd(x, y) ==
    IF x.neg = y.neg THEN Signed(x.neg, BigAdd(x.mag, y.mag))
    ELSE IF BigLess(x.mag, y.mag) THEN Signed(y.neg, BigSub(y.mag, x.mag))
    ELSE Signed(x.neg, BigSub(x.mag, y.mag))

SMulSmall(x, k) == Signed(x.neg, BigMulSmall(x.mag, k))

\* Signed division truncates toward zero.
SDivSmall(x, k) == Signed(x.neg, BigDivSmall(x.mag, k))

\* int64(u) of a uint64 u: values from 2^63 on are negative.
Int64OfUint(u) ==
    IF BigLess(u, Two63) THEN Signed(FALSE, u) ELSE Signed(TRUE, BigSub(Two64, u))

\* x * negV for negV in {1, -1}; -(-2^63) wraps to itself.
SMulSign(x, negV) ==
    IF negV = 1 \/ (x.neg /\ x.mag = Two63) THEN x ELSE SNeg(x)

----------------------------------------------------------------------------
(* Differences and encodings.                                              *)

secondsIn24Hour == 86400

SecondsOfDay(t) == t.hour * 3600 + t.minute * 60 + t.second

calcTimeDiffAddDays(a, b, sign) ==
    LET days == calcDaynr(a.year, a.month, a.day)
                  + sign * calcDaynr(b.year, b.month, b.day)
        secs == SecondsOfDay(a) - sign * SecondsOfDay(b)
        tmp  == SAdd(SMulSmall(SAdd(SMulSmall(SFromInt(days), secondsIn24Hour),
                                    SFromInt(secs)), 1000000),
                     SFromInt(a.microsecond - sign * b.microsecond))
    IN  [seconds |-> BigDivSmall(tmp.mag, 1000000),
         microseconds |-> BigModSmall(tmp.mag, 1000000),
         neg |-> tmp.neg]

\* calcTimeDiff(t1, t2, sign): [seconds, microseconds, neg], seconds a numeral.
calcTimeDiff(a, b, sign) ==
    LET days == calcDaynr(a.year, a.month, a.day)
                  - sign * calcDaynr(b.year, b.month, b.day)
        secs == SecondsOfDay(a) - sign * SecondsOfDay(b)
        tmp  == SAdd(SMulSmall(SAdd(SMulSmall(SFromInt(days), secondsIn24Hour),
                                    SFromInt(secs)), 1000000),
                     SFromInt(a.microsecond - sign * b.microsecond))
    IN  [seconds |-> BigDivSmall(tmp.mag, 1000000),
         microseconds |-> BigModSmall(tmp.mag, 1000000),
         neg |-> tmp.neg]

\* dateToUint64: YYYYMMDD.
dateToUint64(t) == BigFromNat(t.year * 10000 + t.month * 100 + t.day)

\* timeToUint64: HHMMSS.
timeToUint64(t) == BigFromNat(t.hour * 10000 + t.minute * 100 + t.second)

\* datetimeToUint64: YYYYMMDDHHMMSS.
datetimeToUint64(t) ==
    UintAdd(UintMulSmall(dateToUint64(t), 1000000), timeToUint64(t))

IntervalTypes ==
    {"YEAR", "QUARTER", "MONTH", "WEEK", "DAY", "HOUR", "MINUTE", "SECOND",
     "MICROSECOND"}

MonthsBetweenNoBorrow(b, e) ==
    LET back     == e.month < b.month \/ (e.month = b.month /\ e.day < b.day)
        years0   == UintSub(BigFromNat(e.year), BigFromNat(b.year))
        years    == IF back THEN UintSub(years0, <<1>>) ELSE years0
        months0  == UintMulSmall(years, 12)
    IN  IF back
        THEN UintAdd(months0, UintSub(<<12>>, UintSub(BigFromNat(b.month),
                                                      BigFromNat(e.month))))
        ELSE UintAdd(months0, UintSub(BigFromNat(e.month), BigFromNat(b.month)))

\* The months between begin b and end e, as the uint the code computes.
MonthsBetween(b, e) ==
    LET yearBeg  == BigFromNat(b.year)
        yearEnd  == BigFromNat(e.year)
        monthBeg == BigFromNat(b.month)
        monthEnd == BigFromNat(e.month)
        back     == e.month < b.month \/ (e.month = b.month /\ e.day < b.day)
        years0   == UintSub(yearEnd, yearBeg)
        years    == IF back THEN UintSub(years0, <<1>>) ELSE years0
        months0  == UintMulSmall(years, 12)
        months1  == IF back
                    THEN UintAdd(months0,
                                 UintSub(<<12>>, UintSub(monthBeg, monthEnd)))
                    ELSE UintAdd(months0, UintSub(monthEnd, monthBeg))
        borrow   == e.day < b.day
                    \/ (e.day = b.day
                        /\ (SecondsOfDay(e) < SecondsOfDay(b)
                            \/ (SecondsOfDay(e) = SecondsOfDay(b)
                                /\ e.microsecond < b.microsecond)))
    IN  IF borrow THEN UintSub(months1, <<1>>) ELSE months1

\* timestampDiff(intervalType, t1, t2): an int64, as a signed numeral.
timestampDiff(intervalType, a, b) ==
    LET d      == calcTimeDiff(b, a, 1)
        months == IF intervalType \in {"YEAR", "QUARTER", "MONTH"}
                  THEN IF d.neg THEN MonthsBetween(b, a) ELSE MonthsBetween(a, b)
                  ELSE <<>>
        negV   == IF d.neg THEN -1 ELSE 1
        secs   == Signed(FALSE, d.seconds)
    IN  CASE intervalType = "YEAR" ->
               SMulSign(SDivSmall(Int64OfUint(months), 12), negV)
          [] intervalType = "QUARTER" ->
               SMulSign(SDivSmall(Int64OfUint(months), 3), negV)
          [] intervalType = "MONTH" ->
               SMulSign(Int64OfUint(months), negV)
          [] intervalType = "WEEK" ->
               SMulSign(SDivSmall(SDivSmall(secs, secondsIn24Hour), 7), negV)
          [] intervalType = "DAY" ->
               SMulSign(SDivSmall(secs, secondsIn24Hour), negV)
          [] intervalType = "HOUR" -> SMulSign(SDivSmall(secs, 3600), negV)
          [] intervalType = "MINUTE" -> SMulSign(SDivSmall(secs, 60), negV)
          [] intervalType = "SECOND" -> SMulSign(secs, negV)
          [] intervalType = "MICROSECOND" ->
               SMulSign(SAdd(SMulSmall(secs, 1000000), SFromInt(d.microseconds)),
                        negV)
          [] OTHER -> SFromInt(0)

----------------------------------------------------------------------------
(* The proleptic Gregorian calendar the claims are stated against, written *)
(* without the functions under test.                                       *)

IsLeapYear(y) == y % 4 = 0 /\ (y % 100 # 0 \/ y % 400 = 0)

DaysInMonth(y, m) ==
    CASE m \in {4, 6, 9, 11} -> 30
      [] m = 2 -> IF IsLeapYear(y) THEN 29 ELSE 28
      [] OTHER -> 31

IsRealDate(t) == t.month \in 1..12 /\ t.day \in 1..DaysInMonth(t.year, t.month)

InDeclaredRanges(t) ==
    /\ t.year \in 0..MaxYear
    /\ t.month \in 0..12
    /\ t.day \in 0..31
    /\ t.hour \in 0..23
    /\ t.minute \in 0..59
    /\ t.second \in 0..59
    /\ t.microsecond \in 0..999999

\* The day after a real date, <<y, m, d>>.
NextDay(t) ==
    IF t.day < DaysInMonth(t.year, t.month) THEN <<t.year, t.month, t.day + 1>>
    ELSE IF t.month < 12 THEN <<t.year, t.month + 1, 1>>
    ELSE <<t.year + 1, 1, 1>>

SevenFields(tm) ==
    [year |-> tm.year, month |-> tm.month, day |-> tm.day, hour |-> tm.hour,
     minute |-> tm.minute, second |-> tm.second, microsecond |-> tm.microsecond]

\* Monday of the week of day count z (1970-01-01 was a Thursday).
MondayOf(z) == z - ((z + 3) % 7)

\* ISO 8601: weeks start on Monday; a week belongs to the year that holds at
\* least 4 of its days, the year of its Thursday; week 1 holds January 4.
IsoYearWeek(t) ==
    LET monday == MondayOf(DaysFromCivil(t.year, t.month, t.day))
        year   == CivilFromDays(monday + 3)[1]
        first  == MondayOf(DaysFromCivil(year, 1, 4))
    IN  <<year, (monday - first) \div 7 + 1>>

Date(y, m, d) == newMysqlTime(y, m, d, 0, 0, 0, 0)

----------------------------------------------------------------------------
(* The values a caller holds.                                              *)

\* Years sampled around each anchor: the first years, the century years
\* that are and are not leap years, and the last years.
YearSpan == 1

YearAnchors == {1, 100, 400, 1900, 9998}

\* A run of consecutive years, long enough (28) to hold every combination of
\* the weekday of January 1 with leap and common years.
RunLen == 27

CalYears ==
    {y \in 0..MaxYear :
        \/ \E a \in YearAnchors : y \in (a - YearSpan)..(a + YearSpan)
        \/ y \in 1999..(1999 + RunLen)}

\* Every date field combination of the declared ranges, real or not, at
\* midnight; and at the last microsecond of the day in a few years.
CalValues ==
    {newMysqlTime(y, m, d, 0, 0, 0, 0) : y \in CalYears, m \in 0..12, d \in 0..31}
    \cup {newMysqlTime(y, m, d, 23, 59, 59, 999999) :
            y \in {2006, 2024}, m \in 0..12, d \in 0..31}

InitCal ==
    /\ t1 \in CalValues
    /\ t2 = ZeroTime
    /\ op = "none"
    /\ arg = 0
    /\ ret = 0

\* Span of years of the pairs that are subtracted.
DiffYears == 1

\* Real dates at the ends of short and long months, the zero date, a date
\* with zero month and day, and February 30.
DiffDates ==
    {<<y, m, d>> \in (1999..(1999 + DiffYears)) \X {1, 2, 3, 12} \X {1, 28, 29, 31} :
        d <= DaysInMonth(y, m)}
    \cup {<<0, 0, 0>>, <<2000, 0, 0>>, <<2000, 2, 30>>}

DiffClocks == {<<0, 0, 0, 0>>, <<0, 0, 0, 1>>, <<23, 59, 59, 0>>}

DiffValues ==
    {newMysqlTime(d[1], d[2], d[3], c[1], c[2], c[3], c[4]) :
        d \in DiffDates, c \in DiffClocks}

InitDiff ==
    /\ t1 \in DiffValues
    /\ t2 \in DiffValues
    /\ op = "none"
    /\ arg = 0
    /\ ret = 0

InitYear ==
    /\ t1 \in {newMysqlTime(y, 1, 1, 0, 0, 0, 0) : y \in 0..MaxYear}
    /\ t2 = ZeroTime
    /\ op = "none"
    /\ arg = 0
    /\ ret = 0

SmallValues ==
    {ZeroTime,
     newMysqlTime(2006, 12, 0, 0, 0, 0, 0),
     newMysqlTime(2024, 2, 29, 23, 59, 59, 999999)}

\* Elapsed seconds handed to calcTimeFromSec: below a minute, an hour, a
\* day, above a day, and around 256 hours (921600 s).
SecondsSamples ==
    {0, 59, 3600, 86399, 86400, 90061, 921599, 921600}

MicrosecondSamples == {0, 999999}

Init ==
    /\ t1 \in SmallValues
    /\ t2 \in SmallValues
    /\ op = "none"
    /\ arg = 0
    /\ ret = 0

----------------------------------------------------------------------------
(* One action per function of the file.  A function with a value receiver  *)
(* or value parameters works on copies; calcWeek reads through its pointer;*)
(* calcTimeFromSec writes through it.                                      *)

Accessors == {"year", "month", "day", "hour", "minute", "second", "microsecond"}

CallAccessor ==
    \E f \in Accessors :
        /\ op' = "Accessor"
        /\ arg' = f
        /\ ret' = t1[f]
        /\ UNCHANGED <<t1, t2>>

CallYearDay ==
    /\ op' = "YearDay"
    /\ arg' = 0
    /\ ret' = YearDay(t1)
    /\ UNCHANGED <<t1, t2>>

CallWeek ==
    \E mode \in 0..7 :
        /\ op' = "Week"
        /\ arg' = mode
        /\ ret' = Week(t1, mode)
        /\ UNCHANGED <<t1, t2>>

CallYearWeek ==
    \E mode \in 0..7 :
        /\ op' = "YearWeek"
        /\ arg' = mode
        /\ ret' = YearWeek(t1, mode)
        /\ UNCHANGED <<t1, t2>>

CallCalcWeek ==
    \E wb \in 0..7 :
        /\ op' = "calcWeek"
        /\ arg' = wb
        /\ ret' = calcWeek(t1, wb)
        /\ UNCHANGED <<t1, t2>>

CallGoTime ==
    /\ op' = "GoTime"
    /\ arg' = 0
    /\ ret' = GoTime(t1)
    /\ UNCHANGED <<t1, t2>>

CallWeekday ==
    /\ op' = "Weekday"
    /\ arg' = 0
    /\ ret' = Weekday(t1)
    /\ UNCHANGED <<t1, t2>>

CallCalcDaynr ==
    /\ op' = "calcDaynr"
    /\ arg' = 0
    /\ ret' = calcDaynr(t1.year, t1.month, t1.day)
    /\ UNCHANGED <<t1, t2>>

CallCalcDaysInYear ==
    /\ op' = "calcDaysInYear"
    /\ arg' = 0
    /\ ret' = calcDaysInYear(t1.year)
    /\ UNCHANGED <<t1, t2>>

CallCalcTimeDiff ==
    \E sign \in {1, -1} :
        /\ op' = "calcTimeDiff"
        /\ arg' = sign
        /\ ret' = calcTimeDiff(t1, t2, sign)
        /\ UNCHANGED <<t1, t2>>

CallTimestampDiff ==
    \E unit \in IntervalTypes :
        /\ op' = "timestampDiff"
        /\ arg' = unit
        /\ ret' = timestampDiff(unit, t1, t2)
        /\ UNCHANGED <<t1, t2>>

CallDateToUint64 ==
    /\ op' = "dateToUint64"
    /\ arg' = 0
    /\ ret' = dateToUint64(t1)
    /\ UNCHANGED <<t1, t2>>

CallTimeToUint64 ==
    /\ op' = "timeToUint64"
    /\ arg' = 0
    /\ ret' = timeToUint64(t1)
    /\ UNCHANGED <<t1, t2>>

CallDatetimeToUint64 ==
    /\ op' = "datetimeToUint64"
    /\ arg' = 0
    /\ ret' = datetimeToUint64(t1)
    /\ UNCHANGED <<t1, t2>>

CallCalcTimeFromSec ==
    \E seconds \in SecondsSamples, microseconds \in MicrosecondSamples :
        /\ t1' = calcTimeFromSec(t1, seconds, microseconds)
        /\ op' = "calcTimeFromSec"
        /\ arg' = <<seconds, microseconds>>
        /\ ret' = 0
        /\ t2' = t2

\* The functions below are pure: a caller that holds a value calls one of them.
NextCal ==
    \/ op = "none" /\ CallYearDay
    \/ op = "none" /\ CallWeek
    \/ op = "none" /\ CallYearWeek
    \/ op = "none" /\ CallGoTime
    \/ op = "none" /\ CallCalcDaynr

NextDiff ==
    \/ op = "none" /\ CallCalcTimeDiff
    \/ op = "none" /\ CallTimestampDiff

NextYear ==
    \/ op = "none" /\ CallCalcDaysInYear
    \/ op = "none" /\ CallCalcDaynr

Next ==
    \/ CallAccessor
    \/ CallYearDay
    \/ CallWeek
    \/ CallYearWeek
    \/ CallCalcWeek
    \/ CallGoTime
    \/ CallWeekday
    \/ CallCalcDaynr
    \/ CallCalcDaysInYear
    \/ CallCalcTimeDiff
    \/ CallTimestampDiff
    \/ CallDateToUint64
    \/ CallTimeToUint64
    \/ CallDatetimeToUint64
    \/ CallCalcTimeFromSec

\* Every function, on a few values.
Spec == Init /\ [][Next]_vars

\* The calendar functions of one value, on every date of the sampled years.
SpecCal == InitCal /\ [][NextCal]_vars

\* The differences, on pairs of values.
SpecDiff == InitDiff /\ [][NextDiff]_vars

\* The year-level functions, on every year.
SpecYear == InitYear /\ [][NextYear]_vars

----------------------------------------------------------------------------
(* Claims on the calendar functions (SpecCal, SpecYear).                   *)

\* C1: for a value whose fields are in their declared ranges, GoTime returns
\* ErrInvalidTimeFormat exactly when (year, month, day) is not a real
\* calendar date; with the error it still returns the normalized time (a real
\* date-time, another one than the input), and without it the returned time
\* has the seven fields of the input.  2006-12-00 fails, 2024-02-29 succeeds.
C1_GoTimeErrorIffNotRealDate ==
    (op = "GoTime" /\ InDeclaredRanges(t1)) =>
        /\ (ret.err = "ErrInvalidTimeFormat") <=> ~IsRealDate(t1)
        /\ ret.err \in {"nil", "ErrInvalidTimeFormat"}
        /\ ret.err = "nil" => SevenFields(ret.tm) = t1
        /\ ret.err # "nil" =>
              /\ IsRealDate(ret.tm)
              /\ InDeclaredRanges(SevenFields(ret.tm)) \/ ret.tm.year = -1
              /\ SevenFields(ret.tm) # t1
        /\ (t1.year = 2006 /\ t1.month = 12 /\ t1.day = 0) => ret.err # "nil"
        /\ (t1.year = 2024 /\ t1.month = 2 /\ t1.day = 29) => ret.err = "nil"

C1_Witness ==
    /\ op = "GoTime"
    /\ t1 = Date(2006, 12, 0)
    /\ ret.err = "ErrInvalidTimeFormat"
    /\ SevenFields(ret.tm) = Date(2006, 11, 30)

\* C2 as stated: for 2000-01-01, YearWeek(0) is week 52 of 1999 and
\* YearWeek(1) is week 1 of 2000.
C2_Original ==
    (op = "YearWeek" /\ t1 = Date(2000, 1, 1)) =>
        /\ arg = 0 => ret = <<1999, 52>>
        /\ arg = 1 => ret = <<2000, 1>>

\* C2 amended: for 2000-01-01 (a Saturday), YearWeek(0) is week 52 of 1999
\* and YearWeek(1) is week 52 of 1999 too.
C2_YearWeekOf20000101 ==
    (op = "YearWeek" /\ t1 = Date(2000, 1, 1)) =>
        /\ arg = 0 => ret = <<1999, 52>>
        /\ arg = 1 => ret = <<1999, 52>>

C2_Witness ==
    /\ op = "YearWeek"
    /\ t1 = Date(2000, 1, 1)
    /\ arg = 1
    /\ ret = <<1999, 52>>

\* C3: for a real date of a year in 1..9999 and a mode in 0..7, Week(mode) is
\* in 0..53, and in 1..53 when the mode has the Year bit (2); YearWeek(mode)
\* returns a week in 1..53 and a year within 1 of the date's year.
C3_WeekRanges ==
    (IsRealDate(t1) /\ t1.year \in 1..MaxYear /\ arg \in 0..7) =>
        /\ op = "Week" =>
              /\ ret \in 0..53
              /\ test(arg, weekBehaviourYear) => ret \in 1..53
        /\ op = "YearWeek" =>
              /\ ret[2] \in 1..53
              /\ ret[1] \in (t1.year - 1)..(t1.year + 1)

C3_Witness ==
    /\ op = "YearWeek"
    /\ IsRealDate(t1)
    /\ t1.year \in 1..MaxYear
    /\ ret = <<t1.year - 1, 53>>

C7_DaynrConsecutive ==
    (op = "calcDaynr" /\ IsRealDate(t1) /\ t1.year \in 1..MaxYear) =>
        LET n == NextDay(t1)
        IN  calcDaynr(n[1], n[2], n[3]) = ret + 1

C7_Witness ==
    /\ op = "calcDaynr"
    /\ t1 = Date(2000, 2, 29)
    /\ ret = 730544
    /\ calcDaynr(2000, 3, 1) = 730545

\* C10: for every year y in 0..9998, calcDaynr(y+1, 1, 1) - calcDaynr(y, 1, 1)
\* = calcDaysInYear(y): subtracting calcDaysInYear(year-1) from the day number
\* of January 1 gives the day number of January 1 of the year before.
C10_DaysInYearMatchesDaynr ==
    (op = "calcDaysInYear" /\ t1.year \in 0..(MaxYear - 1)) =>
        /\ calcDaynr(t1.year + 1, 1, 1) - calcDaynr(t1.year, 1, 1) = ret
        /\ calcDaynr(t1.year + 1, 1, 1) - ret = calcDaynr(t1.year, 1, 1)

C10_Witness ==
    /\ op = "calcDaysInYear"
    /\ t1.year = 1900
    /\ ret = 365

----------------------------------------------------------------------------
(* Claims on the differences (SpecDiff).                                   *)

\* a is chronologically before b.
Earlier(a, b) ==
    \/ a.year < b.year
    \/ a.year = b.year /\ a.month < b.month
    \/ a.year = b.year /\ a.month = b.month /\ a.day < b.day
    \/ a.year = b.year /\ a.month = b.month /\ a.day = b.day
         /\ SecondsOfDay(a) < SecondsOfDay(b)
    \/ a.year = b.year /\ a.month = b.month /\ a.day = b.day
         /\ SecondsOfDay(a) = SecondsOfDay(b) /\ a.microsecond < b.microsecond

\* (day, seconds of day, microsecond) of a is lexicographically below b's.
DayClockBelow(a, b) ==
    \/ a.day < b.day
    \/ a.day = b.day /\ SecondsOfDay(a) < SecondsOfDay(b)
    \/ a.day = b.day /\ SecondsOfDay(a) = SecondsOfDay(b)
         /\ a.microsecond < b.microsecond

RealDateTime(t) == IsRealDate(t) /\ InDeclaredRanges(t) /\ t.year >= 1

\* C5: for real date-times t1, t2, timestampDiff("MONTH", t1, t2) is
\* s * (12*(yearEnd - yearBeg) + (monthEnd - monthBeg) - b) with (begin, end)
\* the chronologically ordered pair, b = 1 when (day, seconds of day,
\* microsecond) of end is below that of begin, s = -1 when t2 is earlier than
\* t1 and +1 otherwise; so it is never negative when t2 is later than t1,
\* never positive when t2 is earlier, and no wrapped value is left in it.
C5_MonthDiff ==
    (op = "timestampDiff" /\ arg = "MONTH" /\ RealDateTime(t1) /\ RealDateTime(t2)) =>
        LET s   == IF Earlier(t2, t1) THEN -1 ELSE 1
            beg == IF s = 1 THEN t1 ELSE t2
            end == IF s = 1 THEN t2 ELSE t1
            b   == IF DayClockBelow(end, beg) THEN 1 ELSE 0
            n   == 12 * (end.year - beg.year) + (end.month - beg.month) - b
        IN  /\ n >= 0
            /\ ret = SFromInt(s * n)
            /\ Earlier(t1, t2) => ~ret.neg
            /\ Earlier(t2, t1) => (ret.neg \/ ret.mag = <<>>)

C5_Witness ==
    /\ op = "timestampDiff"
    /\ arg = "MONTH"
    /\ t1 = Date(2000, 3, 1)
    /\ t2 = newMysqlTime(1999, 12, 1, 0, 0, 0, 1)
    /\ ret = [neg |-> TRUE, mag |-> <<2>>]

\* C6 as stated: calcTimeDiff(t2, t1, -1) has the seconds and microseconds of
\* calcTimeDiff(t1, t2, +1) and the inverted neg.
C6_Original ==
    (op = "calcTimeDiff" /\ arg = 1) =>
        LET r == calcTimeDiff(t2, t1, -1)
        IN  /\ r.seconds = ret.seconds
            /\ r.microseconds = ret.microseconds
            /\ r.neg = ~ret.neg

\* C6 amended: calcTimeDiff(t2, t1, +1) has the seconds and microseconds of
\* calcTimeDiff(t1, t2, +1), and the inverted neg unless the difference is
\* zero, where neg is false both ways.
C6_SwapAntisymmetric ==
    (op = "calcTimeDiff" /\ arg = 1) =>
        LET r    == calcTimeDiff(t2, t1, 1)
            zero == ret.seconds = <<>> /\ ret.microseconds = 0
        IN  /\ r.seconds = ret.seconds
            /\ r.microseconds = ret.microseconds
            /\ ~zero => r.neg = ~ret.neg
            /\ zero => (~r.neg /\ ~ret.neg)

C6_Witness ==
    /\ op = "calcTimeDiff"
    /\ arg = 1
    /\ t1 = newMysqlTime(1999, 12, 31, 23, 59, 59, 0)
    /\ t2 = Date(2000, 1, 1)
    /\ ret = [seconds |-> <<1>>, microseconds |-> 0, neg |-> TRUE]
    /\ ~calcTimeDiff(t2, t1, 1).neg

----------------------------------------------------------------------------
(* Claims on every function (Spec).                                        *)

C9_TimeFromSecReadsBack ==
    (op = "calcTimeFromSec" /\ arg[1] >= 0 /\ arg[2] \in 0..999999) =>
        /\ t1.hour = arg[1] \div 3600
        /\ t1.minute = (arg[1] % 3600) \div 60
        /\ t1.second = arg[1] % 60
        /\ t1.microsecond = arg[2]
        /\ t1.hour * 3600 + t1.minute * 60 + t1.second = arg[1]

============================================================================
